---- MODULE Spec2Model ----
(***************************************************************************)
(* Session registry (DebugSessionManager) and per-session hardware access  *)
(* arbitration (DebugSession) of src/debugger/session_manager.rs.          *)
(*                                                                         *)
(* Callers are the processes of Procs.  A caller is either between calls   *)
(* (pc = "idle"), inside a call (pc names the next statement to execute)   *)
(* or holds the result of its last call (pc = "done").  Every await point  *)
(* of the source at which a caller can be suspended while another caller   *)
(* runs is a separate value of pc.  The results, the hardware actions and  *)
(* the state at the start of a call are recorded for the callers of        *)
(* `observed` only; the others drop their results and are idle again.      *)
(*                                                                         *)
(* A probe_rs::Core<'_> borrows the Session through the write guard taken  *)
(* in get_core, so the write lock on `session` (the hardware gate) is held *)
(* for as long as the core handle of the operation lives, that is until    *)
(* the operation returns.                                                  *)
(***************************************************************************)
EXTENDS Integers, Sequences, FiniteSets, TLC

\* ---------------------------------------------------------------- bounds
NumProcs == 2        \* concurrent callers
MaxIds == 2          \* session objects ever constructed in one behaviour
MaxProbes == 2       \* debug probes that can be plugged in
MaxAddr == 2         \* breakpoint addresses 1..MaxAddr
MaxUnits == 2        \* hardware breakpoint identifiers 1..MaxUnits
MaxChannels == 1     \* RTT channel indices 0..MaxChannels
MaxTime == 1         \* readings of the wall clock 0..MaxTime
MaxRegFaults == 1    \* register reads that fail within one read_registers
MaxNameLen == 3      \* characters of a register name

\* ------------------------------------------------- construction parameter
max_sessions == 1

Procs == 1..NumProcs
SessIds == 1..MaxIds
Addrs == 1..MaxAddr
Units == 1..MaxUnits
Channels == 0..MaxChannels
NoProc == 0
NoSess == 0

VARIABLES
    sessions,       \* DebugSessionManager.sessions: the ids stored in the map
    regWriter,      \* holder of the write lock of the map, or NoProc
    nextId,         \* next fresh session id (Uuid::new_v4)
    closedIds,      \* history: ids for which close_session returned Ok
    handle,         \* per session object: 0 not constructed, i > 0 attached
                    \* through probe i, -1 hardware handle dropped
    breakpoints,    \* per session: address -> breakpoint id (0 = no entry)
    rtt,            \* per session: the Option<Rtt>
    last_activity,  \* per session: timestamp
    gate,           \* per session: holder of session.write(), or NoProc
    bpLock,         \* per session: holder of breakpoints.write(), or NoProc
    rttLock,        \* per session: holder of rtt.write(), or NoProc
    hwbp,           \* per session: hardware comparator unit -> address (0 = free)
    now,            \* chrono::Utc::now()
    pc, op, arg,    \* per caller: position, operation, argument
    ref,            \* per caller: the Arc<DebugSession> it holds, or NoSess
    res,            \* per caller: result of the last call
    tmp,            \* per caller: local variables of the operation
    hwLog,          \* per caller, history: hardware actions of the call
    pre,            \* per caller, history: breakpoint table and RTT
                    \* attachment of its session when the call started
    observed        \* the callers whose calls the history variables record

regVars == <<sessions, regWriter, nextId, closedIds>>
sessVars == <<breakpoints, rtt, last_activity, gate, bpLock, rttLock, hwbp>>
procVars == <<pc, op, arg, ref, res, tmp, hwLog, pre>>
vars == <<sessions, regWriter, nextId, closedIds, handle, breakpoints, rtt,
          last_activity, gate, bpLock, rttLock, hwbp, now, pc, op, arg, ref,
          res, tmp, hwLog, pre, observed>>

\* ---------------------------------------------------------------- values
None == [attached |-> FALSE, up |-> 0, down |-> 0]
Ok(v) == [kind |-> "Ok", val |-> v]
Err(k) == [kind |-> k, val |-> 0]
ErrMsg(k, m) == [kind |-> k, val |-> m]
NoRes == [kind |-> "none", val |-> 0]
EmptyTable == [a \in Addrs |-> 0]
NoUnits == [u \in Units |-> 0]
NoPre == [bp |-> EmptyTable, rtt |-> None, t |-> 0, reg |-> {}]

Callable(p) == pc[p] \in {"idle", "done"}
InFlight(p) == ~Callable(p)

\* Holders of an Arc<DebugSession> for object s besides the map itself.
Holders(s) == {p \in Procs : ref[p] = s}

\* State after DebugSessionManager::new(max_sessions).
InitWith(obs) ==
    /\ sessions = {}
    /\ regWriter = NoProc
    /\ nextId = 1
    /\ closedIds = {}
    /\ handle = [s \in SessIds |-> 0]
    /\ breakpoints = [s \in SessIds |-> EmptyTable]
    /\ rtt = [s \in SessIds |-> None]
    /\ last_activity = [s \in SessIds |-> 0]
    /\ gate = [s \in SessIds |-> NoProc]
    /\ bpLock = [s \in SessIds |-> NoProc]
    /\ rttLock = [s \in SessIds |-> NoProc]
    /\ hwbp = [s \in SessIds |-> NoUnits]
    /\ now = 0
    /\ pc = [p \in Procs |-> "idle"]
    /\ op = [p \in Procs |-> "none"]
    /\ arg = [p \in Procs |-> 0]
    /\ ref = [p \in Procs |-> NoSess]
    /\ res = [p \in Procs |-> NoRes]
    /\ tmp = [p \in Procs |-> 0]
    /\ hwLog = [p \in Procs |-> <<>>]
    /\ pre = [p \in Procs |-> NoPre]
    /\ observed = obs

Init == InitWith(Procs)

\* ---------------------------------------------------- steps of a caller
\* The state of the caller's session that a call finds.
Snapshot(p) ==
    IF p \in observed
       THEN [bp |-> IF ref[p] # NoSess THEN breakpoints[ref[p]] ELSE EmptyTable,
             rtt |-> IF ref[p] # NoSess THEN rtt[ref[p]] ELSE None,
             t |-> now,
             reg |-> sessions]
       ELSE NoPre

\* A call of operation o with argument a that suspends at statement l with
\* locals t.
Start(p, o, a, l, t) ==
    /\ pc' = [pc EXCEPT ![p] = l]
    /\ op' = [op EXCEPT ![p] = o]
    /\ arg' = [arg EXCEPT ![p] = a]
    /\ res' = [res EXCEPT ![p] = NoRes]
    /\ tmp' = [tmp EXCEPT ![p] = t]
    /\ hwLog' = [hwLog EXCEPT ![p] = <<>>]
    /\ pre' = [pre EXCEPT ![p] = Snapshot(p)]

\* The call continues at statement l with locals t after the hardware
\* actions log.
Cont(p, l, t, log) ==
    /\ pc' = [pc EXCEPT ![p] = l]
    /\ tmp' = [tmp EXCEPT ![p] = t]
    /\ hwLog' = [hwLog EXCEPT ![p] = IF p \in observed THEN @ \o log ELSE @]
    /\ UNCHANGED <<op, arg, res, pre>>

\* The call returns r after the hardware actions log; its locals die.
Finish(p, r, log) ==
    /\ pc' = [pc EXCEPT ![p] = IF p \in observed THEN "done" ELSE "idle"]
    /\ op' = [op EXCEPT ![p] = IF p \in observed THEN @ ELSE "none"]
    /\ arg' = [arg EXCEPT ![p] = IF p \in observed THEN @ ELSE 0]
    /\ res' = [res EXCEPT ![p] = IF p \in observed THEN r ELSE NoRes]
    /\ tmp' = [tmp EXCEPT ![p] = 0]
    /\ hwLog' = [hwLog EXCEPT ![p] = IF p \in observed THEN @ \o log ELSE <<>>]
    /\ UNCHANGED pre

\* A call of operation o with argument a that returns r without suspending
\* and without a hardware action.
Atomic(p, o, a, r) ==
    /\ pc' = [pc EXCEPT ![p] = IF p \in observed THEN "done" ELSE "idle"]
    /\ op' = [op EXCEPT ![p] = IF p \in observed THEN o ELSE "none"]
    /\ arg' = [arg EXCEPT ![p] = IF p \in observed THEN a ELSE 0]
    /\ res' = [res EXCEPT ![p] = IF p \in observed THEN r ELSE NoRes]
    /\ tmp' = [tmp EXCEPT ![p] = 0]
    /\ hwLog' = [hwLog EXCEPT ![p] = <<>>]
    /\ pre' = [pre EXCEPT ![p] = Snapshot(p)]

\* The wall clock advances between two readings of chrono::Utc::now().
Tick ==
    /\ now < MaxTime
    /\ now' = now + 1
    /\ UNCHANGED <<regVars, handle, sessVars, procVars, observed>>

\* ------------------------------------------------------ probe selection
Selectors ==
    {[kind |-> "auto", v |-> 0]}
    \cup [kind : {"index"}, v : 0..MaxProbes]
    \cup [kind : {"serial"}, v : 1..(MaxProbes + 1)]

\* Probe::list_all() returned probes 1..n, probe i with serial number i.
\* The probe the selector designates, 0 when there is none.
ResolveProbe(sel, n) ==
    CASE sel.kind = "auto" -> IF n >= 1 THEN 1 ELSE 0
      [] sel.kind = "index" -> IF sel.v + 1 <= n THEN sel.v + 1 ELSE 0
      [] OTHER -> IF sel.v \in 1..n THEN sel.v ELSE 0

\* Probes that some session object or some create_session in progress has open.
ProbesInUse ==
    {handle[s] : s \in {t \in SessIds : handle[t] > 0}}
    \cup {tmp[p] : p \in {q \in Procs : pc[q] = "new_session"}}

\* ------------------------------------------------------------- registry
\* The limit check with > for >=.
LimitReached_OffByOne == Cardinality(sessions) > max_sessions

\* create_session, line 630.
LimitReached == Cardinality(sessions) >= max_sessions

\* create_session that resolves the probe without checking the limit first.
CreateCheck_Unchecked(p) ==
    /\ Callable(p)
    /\ regWriter = NoProc
    /\ \E probe_selector \in Selectors :
          Start(p, "create_session", probe_selector, "open_probe", 0)
    /\ UNCHANGED <<regVars, handle, sessVars, now, ref, observed>>

\* create_session, lines 627-633: the limit check under the read lock.
CreateCheck(p) ==
    /\ Callable(p)
    /\ regWriter = NoProc
    /\ \E probe_selector \in Selectors :
          IF LimitReached
             THEN Atomic(p, "create_session", probe_selector,
                         Err("SessionLimitExceeded"))
             ELSE Start(p, "create_session", probe_selector, "open_probe", 0)
    /\ UNCHANGED <<regVars, handle, sessVars, now, ref, observed>>

\* create_session, lines 635-655: enumerate, resolve the selector, open.
\* probe_selector is not used after line 655.
CreateOpen(p) ==
    /\ pc[p] = "open_probe"
    /\ \E n \in 0..MaxProbes :
          LET probe == ResolveProbe(arg[p], n) IN
          \/ /\ probe = 0
             /\ Finish(p, Err("ProbeNotFound"), <<"list_all">>)
          \/ /\ probe # 0
             /\ Finish(p, Err("ConnectionFailed"), <<"list_all", "open">>)
          \/ /\ probe # 0
             /\ probe \notin ProbesInUse
             /\ pc' = [pc EXCEPT ![p] = "new_session"]
             /\ tmp' = [tmp EXCEPT ![p] = probe]
             /\ arg' = [arg EXCEPT ![p] = 0]
             /\ hwLog' = [hwLog EXCEPT ![p] =
                            IF p \in observed THEN @ \o <<"list_all", "open">>
                                              ELSE @]
             /\ UNCHANGED <<op, res, pre>>
    /\ UNCHANGED <<regVars, handle, sessVars, now, ref, observed>>

\* DebugSession::new, lines 65-123, called at line 658: set_speed fails, or
\* target_chip does not parse, or attach fails, or the session is built.
NewSession(p) ==
    /\ pc[p] = "new_session"
    /\ \/ /\ Finish(p, Err("ConnectionFailed"), <<"set_speed">>)
          /\ UNCHANGED <<nextId, handle, last_activity>>
       \/ /\ Finish(p, Err("InvalidConfig"), <<"set_speed">>)
          /\ UNCHANGED <<nextId, handle, last_activity>>
       \/ /\ Finish(p, Err("ConnectionFailed"), <<"set_speed", "attach">>)
          /\ UNCHANGED <<nextId, handle, last_activity>>
       \/ /\ nextId <= MaxIds
          /\ handle' = [handle EXCEPT ![nextId] = tmp[p]]
          /\ last_activity' = [last_activity EXCEPT ![nextId] = now]
          /\ nextId' = nextId + 1
          /\ Cont(p, "store", nextId, <<"set_speed", "attach">>)
    /\ UNCHANGED <<sessions, regWriter, closedIds, breakpoints, rtt, gate,
                   bpLock, rttLock, hwbp, now, ref, observed>>

\* create_session that stores every session under one fixed key, so that an
\* insert replaces the entry that is present.
CreateStore_FixedKey(p) ==
    /\ pc[p] = "store"
    /\ regWriter = NoProc
    /\ sessions' = {tmp[p]}
    /\ Finish(p, Ok(tmp[p]), <<>>)
    /\ UNCHANGED <<regWriter, nextId, closedIds, handle, sessVars, now, ref,
                   observed>>

\* create_session, lines 661-668: insert under the write lock, return the id.
CreateStore(p) ==
    /\ pc[p] = "store"
    /\ regWriter = NoProc
    /\ sessions' = sessions \cup {tmp[p]}
    /\ Finish(p, Ok(tmp[p]), <<>>)
    /\ UNCHANGED <<regWriter, nextId, closedIds, handle, sessVars, now, ref,
                   observed>>

\* get_session that takes the entry out of the map instead of cloning it.
GetSession_TakesEntry(p) ==
    /\ Callable(p)
    /\ ref[p] = NoSess
    /\ regWriter = NoProc
    /\ \E session_id \in SessIds :
          IF session_id \in sessions
             THEN /\ ref' = [ref EXCEPT ![p] = session_id]
                  /\ sessions' = sessions \ {session_id}
                  /\ Atomic(p, "get_session", session_id, Ok(session_id))
             ELSE /\ Atomic(p, "get_session", session_id, Err("InvalidSession"))
                  /\ UNCHANGED <<ref, sessions>>
    /\ UNCHANGED <<regWriter, nextId, closedIds, handle, sessVars, now,
                   observed>>

\* get_session, lines 672-678.
GetSession(p) ==
    /\ Callable(p)
    /\ ref[p] = NoSess
    /\ regWriter = NoProc
    /\ \E session_id \in SessIds :
          IF session_id \in sessions
             THEN /\ ref' = [ref EXCEPT ![p] = session_id]
                  /\ Atomic(p, "get_session", session_id, Ok(session_id))
             ELSE /\ Atomic(p, "get_session", session_id, Err("InvalidSession"))
                  /\ UNCHANGED ref
    /\ UNCHANGED <<regVars, handle, sessVars, now, observed>>

\* The last Arc of a session object goes away: the probe_rs Session is
\* dropped, which releases the probe.
Released(s) == [handle EXCEPT ![s] = -1]

\* A caller lets go of the Arc<DebugSession> that get_session gave it.
DropRef(p) ==
    /\ Callable(p)
    /\ ref[p] # NoSess
    /\ ref' = [ref EXCEPT ![p] = NoSess]
    /\ handle' = IF /\ ref[p] \notin sessions
                    /\ Holders(ref[p]) = {p}
                    /\ \A q \in Procs : ~(pc[q] = "close_drop" /\ tmp[q] = ref[p])
                    THEN Released(ref[p]) ELSE handle
    /\ UNCHANGED <<regVars, sessVars, now, pc, op, arg, res, tmp, hwLog, pre,
                   observed>>

\* close_session that looks the entry up and leaves it in the map.
CloseSession_KeepsEntry(p) ==
    /\ Callable(p)
    /\ regWriter = NoProc
    /\ \E session_id \in SessIds :
          IF session_id \in sessions
             THEN /\ regWriter' = p
                  /\ Start(p, "close_session", session_id, "close_drop",
                           session_id)
                  /\ UNCHANGED sessions
             ELSE /\ Atomic(p, "close_session", session_id,
                            Err("InvalidSession"))
                  /\ UNCHANGED <<sessions, regWriter>>
    /\ UNCHANGED <<nextId, closedIds, handle, sessVars, now, ref, observed>>

\* close_session, lines 682-685: take the write lock, remove the entry.
CloseSession(p) ==
    /\ Callable(p)
    /\ regWriter = NoProc
    /\ \E session_id \in SessIds :
          IF session_id \in sessions
             THEN /\ sessions' = sessions \ {session_id}
                  /\ regWriter' = p
                  /\ Start(p, "close_session", session_id, "close_drop",
                           session_id)
             ELSE /\ Atomic(p, "close_session", session_id,
                            Err("InvalidSession"))
                  /\ UNCHANGED <<sessions, regWriter>>
    /\ UNCHANGED <<nextId, closedIds, handle, sessVars, now, ref, observed>>

\* close_session, lines 685-689: the removed Arc is dropped at the end of the
\* statement, the write guard at the end of the function.
CloseDrop(p) ==
    /\ pc[p] = "close_drop"
    /\ IF Holders(tmp[p]) = {}
          THEN /\ handle' = Released(tmp[p])
               /\ Finish(p, Ok(0), <<"drop_handle">>)
          ELSE /\ Finish(p, Ok(0), <<>>)
               /\ UNCHANGED handle
    /\ regWriter' = NoProc
    /\ closedIds' = closedIds \cup {tmp[p]}
    /\ UNCHANGED <<sessions, nextId, sessVars, now, ref, observed>>

\* list_sessions, lines 692-695.
ListSessions(p) ==
    /\ Callable(p)
    /\ regWriter = NoProc
    /\ Atomic(p, "list_sessions", 0, Ok(sessions))
    /\ UNCHANGED <<regVars, handle, sessVars, now, ref, observed>>

\* session_count that counts the sessions ever built.
SessionCount_EverBuilt(p) ==
    /\ Callable(p)
    /\ regWriter = NoProc
    /\ Atomic(p, "session_count", 0, Ok(nextId - 1))
    /\ UNCHANGED <<regVars, handle, sessVars, now, ref, observed>>

\* session_count, lines 698-701.
SessionCount(p) ==
    /\ Callable(p)
    /\ regWriter = NoProc
    /\ Atomic(p, "session_count", 0, Ok(Cardinality(sessions)))
    /\ UNCHANGED <<regVars, handle, sessVars, now, ref, observed>>

\* ------------------------------------------------------------- session
\* The session the caller operates on.
S(p) == ref[p]

Unlock(l, p) == [s \in SessIds |-> IF l[s] = p THEN NoProc ELSE l[s]]

\* Return from a session operation that leaves the write guard of the
\* probe_rs session locked.
Return_KeepsGate(p, r, log) ==
    /\ Finish(p, r, log)
    /\ UNCHANGED gate
    /\ bpLock' = Unlock(bpLock, p)
    /\ rttLock' = Unlock(rttLock, p)

\* Return from a session operation: every guard the operation holds is
\* dropped with its scope.
Return(p, r, log) ==
    /\ Finish(p, r, log)
    /\ gate' = Unlock(gate, p)
    /\ bpLock' = Unlock(bpLock, p)
    /\ rttLock' = Unlock(rttLock, p)

\* update_activity, lines 141-144.
update_activity(s) == last_activity' = [last_activity EXCEPT ![s] = now]

\* First statement after get_core, per operation.
Entry(o) ==
    CASE o = "halt" -> "halt"
      [] o = "run" -> "run"
      [] o = "reset" -> "reset"
      [] o = "step" -> "step"
      [] o = "get_core_status" -> "status_pc"
      [] o = "read_memory" -> "mem_read"
      [] o = "write_memory" -> "mem_write"
      [] o = "read_registers" -> "reg_first"
      [] o = "write_register" -> "reg_match"
      [] o = "set_breakpoint" -> "bp_set"
      [] o = "clear_breakpoint" -> "bp_clear"
      [] o = "attach_rtt" -> "rtt_attach"
      [] o = "read_rtt" -> "rtt_check"
      [] OTHER -> "rtt_check"

\* A call of an operation whose first statement is get_core: the activity
\* timestamp is refreshed (line 148), then the caller waits for the gate.
CallCore(p, o, a) ==
    /\ Callable(p)
    /\ S(p) # NoSess
    /\ update_activity(S(p))
    /\ Start(p, o, a, "gate", 0)
    /\ UNCHANGED <<regVars, handle, breakpoints, rtt, gate, bpLock, rttLock,
                   hwbp, now, ref, observed>>

\* get_core whose write guard is released when get_core returns.
GetCore_GuardDropped(p) ==
    /\ pc[p] = "gate"
    /\ gate[S(p)] = NoProc
    /\ \/ /\ Cont(p, Entry(op[p]), tmp[p], <<"core">>)
          /\ UNCHANGED <<gate, bpLock, rttLock>>
       \/ Return(p, Err("InternalError"), <<"core">>)
    /\ UNCHANGED <<regVars, handle, breakpoints, rtt, last_activity, hwbp,
                   now, ref, observed>>

\* get_core over one lock shared by all sessions.
GetCore_SharedGate(p) ==
    /\ pc[p] = "gate"
    /\ \A s \in SessIds : gate[s] = NoProc
    /\ \/ /\ gate' = [gate EXCEPT ![S(p)] = p]
          /\ Cont(p, Entry(op[p]), tmp[p], <<"core">>)
          /\ UNCHANGED <<bpLock, rttLock>>
       \/ Return(p, Err("InternalError"), <<"core">>)
    /\ UNCHANGED <<regVars, handle, breakpoints, rtt, last_activity, hwbp,
                   now, ref, observed>>

\* get_core, lines 150-152: take session.write(), then session.core(0).
GetCore(p) ==
    /\ pc[p] = "gate"
    /\ gate[S(p)] = NoProc
    /\ \/ /\ gate' = [gate EXCEPT ![S(p)] = p]
          /\ Cont(p, Entry(op[p]), tmp[p], <<"core">>)
          /\ UNCHANGED <<bpLock, rttLock>>
       \/ Return(p, Err("InternalError"), <<"core">>)
    /\ UNCHANGED <<regVars, handle, breakpoints, rtt, last_activity, hwbp,
                   now, ref, observed>>

\* A hardware command that is issued a second time when it fails.
Cmd_RetriesOnce(p, at, cmd, next) ==
    /\ pc[p] = at
    /\ \/ /\ Cont(p, next, tmp[p], <<cmd>>)
          /\ UNCHANGED <<gate, bpLock, rttLock>>
       \/ /\ \A i \in 1..Len(hwLog[p]) : hwLog[p][i] # cmd
          /\ Cont(p, at, tmp[p], <<cmd>>)
          /\ UNCHANGED <<gate, bpLock, rttLock>>
       \/ Return(p, Err("InternalError"), <<cmd>>)
    /\ UNCHANGED <<regVars, handle, breakpoints, rtt, last_activity, hwbp,
                   now, ref, observed>>

\* One fallible hardware command at statement `at`: on success continue at
\* `next`, on failure return InternalError (the `?` after map_err).
Cmd(p, at, cmd, next) ==
    /\ pc[p] = at
    /\ \/ /\ Cont(p, next, tmp[p], <<cmd>>)
          /\ UNCHANGED <<gate, bpLock, rttLock>>
       \/ Return(p, Err("InternalError"), <<cmd>>)
    /\ UNCHANGED <<regVars, handle, breakpoints, rtt, last_activity, hwbp,
                   now, ref, observed>>

\* The last hardware command of an operation that then returns Ok.
LastCmd(p, at, cmd) ==
    /\ pc[p] = at
    /\ \/ Return(p, Ok(0), <<cmd>>)
       \/ Return(p, Err("InternalError"), <<cmd>>)
    /\ UNCHANGED <<regVars, handle, breakpoints, rtt, last_activity, hwbp,
                   now, ref, observed>>

\* halt, lines 156-164.
Halt(p) ==
    \/ CallCore(p, "halt", 0)
    \/ Cmd(p, "halt", "halt", "status_pc")

\* run, lines 167-175.
Run(p) ==
    \/ CallCore(p, "run", 0)
    \/ LastCmd(p, "run", "run")

\* reset, lines 178-192.
Reset(p, flags) ==
    \/ \E halt_after_reset \in flags : CallCore(p, "reset", halt_after_reset)
    \/ Cmd(p, "reset", IF arg[p] THEN "reset_and_halt" ELSE "reset", "status_pc")

\* step, lines 195-203.
Step(p) ==
    \/ CallCore(p, "step", 0)
    \/ Cmd(p, "step", "step", "status_pc")

\* get_core_status, lines 206-209.
GetCoreStatus(p) == CallCore(p, "get_core_status", 0)

CoreStatus(h, r) == [is_halted |-> h, halt_reason |-> r]

\* get_core_status_internal that propagates a failed halt-reason lookup.
get_core_status_internal_ReasonFatal(p) ==
    \/ Cmd(p, "status_pc", "read_pc", "status_sp")
    \/ Cmd(p, "status_sp", "read_sp", "status_halted")
    \/ /\ pc[p] = "status_halted"
       /\ \/ /\ Cont(p, "status_reason", tmp[p], <<"core_halted">>)
             /\ UNCHANGED <<gate, bpLock, rttLock>>
          \/ Return(p, Ok(CoreStatus(FALSE, "None")), <<"core_halted">>)
          \/ Return(p, Err("InternalError"), <<"core_halted">>)
       /\ UNCHANGED <<regVars, handle, breakpoints, rtt, last_activity, hwbp,
                      now, ref, observed>>
    \/ /\ pc[p] = "status_reason"
       /\ \/ Return(p, Ok(CoreStatus(TRUE, "Some")), <<"halt_reason">>)
          \/ Return(p, Err("InternalError"), <<"halt_reason_failed">>)
       /\ UNCHANGED <<regVars, handle, breakpoints, rtt, last_activity, hwbp,
                      now, ref, observed>>

\* get_core_status_internal, lines 212-237.
get_core_status_internal(p) ==
    \/ Cmd(p, "status_pc", "read_pc", "status_sp")
    \/ Cmd(p, "status_sp", "read_sp", "status_halted")
    \/ /\ pc[p] = "status_halted"
       /\ \/ /\ Cont(p, "status_reason", tmp[p], <<"core_halted">>)
             /\ UNCHANGED <<gate, bpLock, rttLock>>
          \/ Return(p, Ok(CoreStatus(FALSE, "None")), <<"core_halted">>)
          \/ Return(p, Err("InternalError"), <<"core_halted">>)
       /\ UNCHANGED <<regVars, handle, breakpoints, rtt, last_activity, hwbp,
                      now, ref, observed>>
    \/ /\ pc[p] = "status_reason"
       /\ \/ Return(p, Ok(CoreStatus(TRUE, "Some")), <<"halt_reason">>)
          \/ Return(p, Ok(CoreStatus(TRUE, "Unknown")), <<"halt_reason_failed">>)
       /\ UNCHANGED <<regVars, handle, breakpoints, rtt, last_activity, hwbp,
                      now, ref, observed>>

\* read_memory, lines 240-250.
ReadMemory(p) ==
    \/ CallCore(p, "read_memory", 0)
    \/ LastCmd(p, "mem_read", "read")

\* write_memory, lines 253-262.
WriteMemory(p) ==
    \/ CallCore(p, "write_memory", 0)
    \/ LastCmd(p, "mem_write", "write")

\* ------------------------------------------------------------ registers
\* Register names are sequences of characters.
LowerCase == <<"a", "b", "c", "d", "e", "f", "g", "h", "i", "j", "k", "l", "m",
               "n", "o", "p", "q", "r", "s", "t", "u", "v", "w", "x", "y", "z">>
UpperCase == <<"A", "B", "C", "D", "E", "F", "G", "H", "I", "J", "K", "L", "M",
               "N", "O", "P", "Q", "R", "S", "T", "U", "V", "W", "X", "Y", "Z">>

\* str::to_uppercase on ASCII names.
ToUpperChar(c) ==
    IF \E i \in 1..Len(LowerCase) : LowerCase[i] = c
       THEN UpperCase[CHOOSE i \in 1..Len(LowerCase) : LowerCase[i] = c]
       ELSE c
to_uppercase(name) == [i \in 1..Len(name) |-> ToUpperChar(name[i])]

\* The match of read_registers with register 0 for an unknown name.
RegIdRead_UnknownIsR0(name) ==
    LET u == to_uppercase(name) IN
    CASE u = <<"R", "1">> -> 1
      [] u = <<"R", "2">> -> 2
      [] u = <<"R", "3">> -> 3
      [] u = <<"R", "4">> -> 4
      [] u = <<"R", "5">> -> 5
      [] u = <<"R", "6">> -> 6
      [] u = <<"R", "7">> -> 7
      [] u = <<"R", "8">> -> 8
      [] u = <<"R", "9">> -> 9
      [] u = <<"R", "1", "0">> -> 10
      [] u = <<"R", "1", "1">> -> 11
      [] u = <<"R", "1", "2">> -> 12
      [] u = <<"S", "P">> \/ u = <<"R", "1", "3">> -> 13
      [] u = <<"L", "R">> \/ u = <<"R", "1", "4">> -> 14
      [] u = <<"P", "C">> \/ u = <<"R", "1", "5">> -> 15
      [] OTHER -> 0

\* The match of read_registers, lines 283-301; -1 is the `continue` arm.
RegIdRead(name) ==
    LET u == to_uppercase(name) IN
    CASE u = <<"R", "0">> -> 0
      [] u = <<"R", "1">> -> 1
      [] u = <<"R", "2">> -> 2
      [] u = <<"R", "3">> -> 3
      [] u = <<"R", "4">> -> 4
      [] u = <<"R", "5">> -> 5
      [] u = <<"R", "6">> -> 6
      [] u = <<"R", "7">> -> 7
      [] u = <<"R", "8">> -> 8
      [] u = <<"R", "9">> -> 9
      [] u = <<"R", "1", "0">> -> 10
      [] u = <<"R", "1", "1">> -> 11
      [] u = <<"R", "1", "2">> -> 12
      [] u = <<"S", "P">> \/ u = <<"R", "1", "3">> -> 13
      [] u = <<"L", "R">> \/ u = <<"R", "1", "4">> -> 14
      [] u = <<"P", "C">> \/ u = <<"R", "1", "5">> -> 15
      [] OTHER -> -1

\* The match of write_register without the numeric aliases R13, R14, R15.
RegIdWrite_NoAliases(register_name) ==
    LET u == to_uppercase(register_name) IN
    CASE u = <<"R", "0">> -> 0
      [] u = <<"R", "1">> -> 1
      [] u = <<"R", "2">> -> 2
      [] u = <<"R", "3">> -> 3
      [] u = <<"R", "4">> -> 4
      [] u = <<"R", "5">> -> 5
      [] u = <<"R", "6">> -> 6
      [] u = <<"R", "7">> -> 7
      [] u = <<"R", "8">> -> 8
      [] u = <<"R", "9">> -> 9
      [] u = <<"R", "1", "0">> -> 10
      [] u = <<"R", "1", "1">> -> 11
      [] u = <<"R", "1", "2">> -> 12
      [] u = <<"S", "P">> -> 13
      [] u = <<"L", "R">> -> 14
      [] u = <<"P", "C">> -> 15
      [] OTHER -> -1

\* The match of write_register, lines 323-341; -1 is the InvalidConfig arm.
RegIdWrite(register_name) ==
    LET u == to_uppercase(register_name) IN
    CASE u = <<"R", "0">> -> 0
      [] u = <<"R", "1">> -> 1
      [] u = <<"R", "2">> -> 2
      [] u = <<"R", "3">> -> 3
      [] u = <<"R", "4">> -> 4
      [] u = <<"R", "5">> -> 5
      [] u = <<"R", "6">> -> 6
      [] u = <<"R", "7">> -> 7
      [] u = <<"R", "8">> -> 8
      [] u = <<"R", "9">> -> 9
      [] u = <<"R", "1", "0">> -> 10
      [] u = <<"R", "1", "1">> -> 11
      [] u = <<"R", "1", "2">> -> 12
      [] u = <<"S", "P">> \/ u = <<"R", "1", "3">> -> 13
      [] u = <<"L", "R">> \/ u = <<"R", "1", "4">> -> 14
      [] u = <<"P", "C">> \/ u = <<"R", "1", "5">> -> 15
      [] OTHER -> -1

\* The default list without its last name.
DefaultNames_WithoutPC ==
    << <<"R", "0">>, <<"R", "1">>, <<"R", "2">>, <<"R", "3">>, <<"R", "4">>,
       <<"R", "5">>, <<"R", "6">>, <<"R", "7">>, <<"R", "8">>, <<"R", "9">>,
       <<"R", "1", "0">>, <<"R", "1", "1">>, <<"R", "1", "2">>,
       <<"S", "P">>, <<"L", "R">> >>

\* The names read for an empty request, lines 273-276.
DefaultNames ==
    << <<"R", "0">>, <<"R", "1">>, <<"R", "2">>, <<"R", "3">>, <<"R", "4">>,
       <<"R", "5">>, <<"R", "6">>, <<"R", "7">>, <<"R", "8">>, <<"R", "9">>,
       <<"R", "1", "0">>, <<"R", "1", "1">>, <<"R", "1", "2">>,
       <<"S", "P">>, <<"L", "R">>, <<"P", "C">> >>

\* Names the callers of the model pass.
SomeNames == {<<"s", "p">>, <<"R", "1", "3">>, <<"b", "o", "g", "u", "s">>}
SomeLists ==
    {<<>>, << <<"s", "p">>, <<"b", "o", "g", "u", "s">> >>,
     << <<"b", "o", "g", "u", "s">>, <<"r", "1", "6">> >>}

\* Locals of read_registers at the head of the loop.
RegLoop(p) ==
    IF pc[p] = "reg_first"
       THEN [names |-> IF arg[p] = <<>> THEN DefaultNames ELSE arg[p],
             i |-> 1, registers |-> {}, failed |-> 0]
       ELSE tmp[p]

\* read_registers, lines 265-314: one iteration of the loop per step.
ReadRegisters(p, lists) ==
    \/ \E register_names \in lists : CallCore(p, "read_registers", register_names)
    \/ /\ pc[p] \in {"reg_first", "reg_loop"}
       /\ LET st == RegLoop(p)
              name == st.names[st.i]
              Continue(regs, failed, log) ==
                  IF st.i = Len(st.names)
                     THEN Return(p, Ok(regs), log)
                     ELSE /\ Cont(p, "reg_loop",
                                  [st EXCEPT !.i = st.i + 1, !.registers = regs,
                                             !.failed = failed], log)
                          /\ UNCHANGED <<gate, bpLock, rttLock>>
          IN IF RegIdRead(name) = -1
                THEN Continue(st.registers, st.failed, <<>>)
                ELSE \/ Continue(st.registers \cup {name}, st.failed,
                                 <<"read_reg">>)
                     \/ /\ st.failed < MaxRegFaults
                        /\ Continue(st.registers, st.failed + 1,
                                    <<"read_reg_failed">>)
       /\ UNCHANGED <<regVars, handle, breakpoints, rtt, last_activity, hwbp,
                      now, ref, observed>>

\* write_register, lines 317-347.
WriteRegister(p, names) ==
    \/ \E register_name \in names : CallCore(p, "write_register", register_name)
    \/ /\ pc[p] = "reg_match"
       /\ IF RegIdWrite(arg[p]) = -1
             THEN Return(p, Err("InvalidConfig"), <<>>)
             ELSE \/ Return(p, Ok(0), <<"write_reg">>)
                  \/ Return(p, Err("InternalError"), <<"write_reg">>)
       /\ UNCHANGED <<regVars, handle, breakpoints, rtt, last_activity, hwbp,
                      now, ref, observed>>

\* ---------------------------------------------------------- breakpoints
\* The unit the probe uses for a breakpoint at address a: the unit that
\* already watches a, otherwise any free unit.
UnitsFor(s, a) ==
    IF \E u \in Units : hwbp[s][u] = a
       THEN {u \in Units : hwbp[s][u] = a}
       ELSE {u \in Units : hwbp[s][u] = 0}

\* set_breakpoint that removes the old entry when the hardware breakpoint is
\* set and inserts the new one afterwards.
SetBreakpoint_RemoveThenInsert(p, addrs) ==
    \/ \E address \in addrs : CallCore(p, "set_breakpoint", address)
    \/ /\ pc[p] = "bp_set"
       /\ \/ \E bp_id \in UnitsFor(S(p), arg[p]) :
                /\ hwbp' = [hwbp EXCEPT ![S(p)][bp_id] = arg[p]]
                /\ breakpoints' = [breakpoints EXCEPT ![S(p)][arg[p]] = 0]
                /\ Cont(p, "bp_insert", bp_id, <<"set_hw_breakpoint">>)
                /\ UNCHANGED <<gate, bpLock, rttLock>>
          \/ /\ Return(p, Err("InternalError"), <<"set_hw_breakpoint">>)
             /\ UNCHANGED <<hwbp, breakpoints>>
       /\ UNCHANGED <<regVars, handle, rtt, last_activity, now, ref, observed>>
    \/ /\ pc[p] = "bp_insert"
       /\ bpLock[S(p)] = NoProc
       /\ breakpoints' = [breakpoints EXCEPT ![S(p)][arg[p]] = tmp[p]]
       /\ Return(p, Ok(tmp[p]), <<>>)
       /\ UNCHANGED <<regVars, handle, rtt, last_activity, hwbp, now, ref,
                      observed>>

\* set_breakpoint, lines 350-362.
SetBreakpoint(p, addrs) ==
    \/ \E address \in addrs : CallCore(p, "set_breakpoint", address)
    \/ /\ pc[p] = "bp_set"
       /\ \/ \E bp_id \in UnitsFor(S(p), arg[p]) :
                /\ hwbp' = [hwbp EXCEPT ![S(p)][bp_id] = arg[p]]
                /\ Cont(p, "bp_insert", bp_id, <<"set_hw_breakpoint">>)
                /\ UNCHANGED <<gate, bpLock, rttLock>>
          \/ /\ Return(p, Err("InternalError"), <<"set_hw_breakpoint">>)
             /\ UNCHANGED hwbp
       /\ UNCHANGED <<regVars, handle, breakpoints, rtt, last_activity, now,
                      ref, observed>>
    \/ /\ pc[p] = "bp_insert"
       /\ bpLock[S(p)] = NoProc
       /\ breakpoints' = [breakpoints EXCEPT ![S(p)][arg[p]] = tmp[p]]
       /\ Return(p, Ok(tmp[p]), <<>>)
       /\ UNCHANGED <<regVars, handle, rtt, last_activity, hwbp, now, ref,
                      observed>>

\* clear_breakpoint that reads the entry and leaves it in the table.
ClearBreakpoint_KeepsEntry(p, addrs) ==
    \/ /\ Callable(p)
       /\ S(p) # NoSess
       /\ bpLock[S(p)] = NoProc
       /\ \E address \in addrs :
             IF breakpoints[S(p)][address] # 0
                THEN /\ bpLock' = [bpLock EXCEPT ![S(p)] = p]
                     /\ update_activity(S(p))
                     /\ Start(p, "clear_breakpoint", address, "gate",
                              breakpoints[S(p)][address])
                     /\ UNCHANGED breakpoints
                ELSE /\ Atomic(p, "clear_breakpoint", address, Ok(0))
                     /\ UNCHANGED <<breakpoints, bpLock, last_activity>>
       /\ UNCHANGED <<regVars, handle, rtt, gate, rttLock, hwbp, now, ref,
                      observed>>
    \/ /\ pc[p] = "bp_clear"
       /\ \/ /\ hwbp' = [hwbp EXCEPT ![S(p)][tmp[p]] = 0]
             /\ Return(p, Ok(0), <<"clear_hw_breakpoint">>)
          \/ /\ Return(p, Err("InternalError"), <<"clear_hw_breakpoint">>)
             /\ UNCHANGED hwbp
       /\ UNCHANGED <<regVars, handle, breakpoints, rtt, last_activity, now,
                      ref, observed>>

\* clear_breakpoint, lines 365-377.
ClearBreakpoint(p, addrs) ==
    \/ /\ Callable(p)
       /\ S(p) # NoSess
       /\ bpLock[S(p)] = NoProc
       /\ \E address \in addrs :
             IF breakpoints[S(p)][address] # 0
                THEN /\ breakpoints' = [breakpoints EXCEPT ![S(p)][address] = 0]
                     /\ bpLock' = [bpLock EXCEPT ![S(p)] = p]
                     /\ update_activity(S(p))
                     /\ Start(p, "clear_breakpoint", address, "gate",
                              breakpoints[S(p)][address])
                ELSE /\ Atomic(p, "clear_breakpoint", address, Ok(0))
                     /\ UNCHANGED <<breakpoints, bpLock, last_activity>>
       /\ UNCHANGED <<regVars, handle, rtt, gate, rttLock, hwbp, now, ref,
                      observed>>
    \/ /\ pc[p] = "bp_clear"
       /\ \/ /\ hwbp' = [hwbp EXCEPT ![S(p)][tmp[p]] = 0]
             /\ Return(p, Ok(0), <<"clear_hw_breakpoint">>)
          \/ /\ Return(p, Err("InternalError"), <<"clear_hw_breakpoint">>)
             /\ UNCHANGED hwbp
       /\ UNCHANGED <<regVars, handle, breakpoints, rtt, last_activity, now,
                      ref, observed>>

\* The (id, address) pairs of a breakpoint table.
Pairs(table) == {<<table[a], a>> : a \in {b \in Addrs : table[b] # 0}}

\* list_breakpoints, lines 380-383.
ListBreakpoints(p) ==
    /\ Callable(p)
    /\ S(p) # NoSess
    /\ bpLock[S(p)] = NoProc
    /\ Atomic(p, "list_breakpoints", 0, Ok(Pairs(breakpoints[S(p)])))
    /\ UNCHANGED <<regVars, handle, sessVars, now, ref, observed>>

\* ---------------------------------------------------------------- flash
\* The addresses for which the target has a flash algorithm
\* (flash_algorithm_for_address, line 400).
FlashRegion == {1}

\* flash_binary that writes without asking whether the address is in flash.
FlashBinary_WritesUnchecked(p) ==
    \/ /\ Callable(p)
       /\ S(p) # NoSess
       /\ \E address \in Addrs :
             \/ Start(p, "flash_binary", address, "flash_gate", 0)
             \/ Atomic(p, "flash_binary", address, Err("InvalidConfig"))
       /\ UNCHANGED <<regVars, handle, sessVars, now, ref, observed>>
    \/ /\ pc[p] = "flash_gate"
       /\ gate[S(p)] = NoProc
       /\ \/ Return(p, Err("InternalError"), <<"core">>)
          \/ /\ gate' = [gate EXCEPT ![S(p)] = p]
             /\ Cont(p, "flash_write", tmp[p], <<"core">>)
             /\ UNCHANGED <<bpLock, rttLock>>
       /\ UNCHANGED <<regVars, handle, breakpoints, rtt, last_activity, hwbp,
                      now, ref, observed>>
    \/ LastCmd(p, "flash_write", "write")

\* flash_binary, lines 386-421: the file is read (InvalidConfig when that
\* fails), session.write() is taken, the address is looked up in the flash
\* map (InvalidAddress), then core(0) and core.write.
FlashBinary(p) ==
    \/ /\ Callable(p)
       /\ S(p) # NoSess
       /\ \E address \in Addrs :
             \/ Start(p, "flash_binary", address, "flash_gate", 0)
             \/ Atomic(p, "flash_binary", address, Err("InvalidConfig"))
       /\ UNCHANGED <<regVars, handle, sessVars, now, ref, observed>>
    \/ /\ pc[p] = "flash_gate"
       /\ gate[S(p)] = NoProc
       /\ IF arg[p] \notin FlashRegion
             THEN Return(p, Err("InvalidAddress"), <<>>)
             ELSE \/ Return(p, Err("InternalError"), <<"core">>)
                  \/ /\ gate' = [gate EXCEPT ![S(p)] = p]
                     /\ Cont(p, "flash_write", tmp[p], <<"core">>)
                     /\ UNCHANGED <<bpLock, rttLock>>
       /\ UNCHANGED <<regVars, handle, breakpoints, rtt, last_activity, hwbp,
                      now, ref, observed>>
    \/ LastCmd(p, "flash_write", "write")

\* flash_elf, lines 424-451.
FlashElf(p) ==
    \/ /\ Callable(p)
       /\ S(p) # NoSess
       /\ Start(p, "flash_elf", 0, "elf_gate", 0)
       /\ UNCHANGED <<regVars, handle, sessVars, now, ref, observed>>
    \/ /\ pc[p] = "elf_gate"
       /\ gate[S(p)] = NoProc
       /\ gate' = [gate EXCEPT ![S(p)] = p]
       /\ Cont(p, "elf_download", tmp[p], <<>>)
       /\ UNCHANGED <<regVars, handle, breakpoints, rtt, last_activity, bpLock,
                      rttLock, hwbp, now, ref, observed>>
    \/ /\ pc[p] = "elf_download"
       /\ \/ Return(p, Ok(0), <<"download_file">>)
          \/ Return(p, Err("InvalidConfig"), <<"download_file">>)
          \/ Return(p, Err("InternalError"), <<"download_file">>)
       /\ UNCHANGED <<regVars, handle, breakpoints, rtt, last_activity, hwbp,
                      now, ref, observed>>

\* ------------------------------------------------------------------ RTT
\* An attachment: the numbers of up and of down channels found.
Attachments == [attached : {TRUE}, up : 0..MaxChannels, down : 0..MaxChannels]

\* attach_rtt that gives up the prior attachment when the scan fails.
AttachRtt_DropsOnFailure(p) ==
    \/ CallCore(p, "attach_rtt", 0)
    \/ /\ pc[p] = "rtt_attach"
       /\ \/ \E found \in Attachments :
                /\ Cont(p, "rtt_store", found, <<"rtt_attach_region">>)
                /\ UNCHANGED <<gate, bpLock, rttLock, rtt>>
          \/ /\ Return(p, Err("InternalError"), <<"rtt_attach_region">>)
             /\ rtt' = [rtt EXCEPT ![S(p)] = None]
       /\ UNCHANGED <<regVars, handle, breakpoints, last_activity, hwbp,
                      now, ref, observed>>
    \/ /\ pc[p] = "rtt_store"
       /\ rttLock[S(p)] = NoProc
       /\ rtt' = [rtt EXCEPT ![S(p)] = tmp[p]]
       /\ Return(p, Ok(tmp[p]), <<>>)
       /\ UNCHANGED <<regVars, handle, breakpoints, last_activity, hwbp, now,
                      ref, observed>>

\* attach_rtt, lines 454-504.
AttachRtt(p) ==
    \/ CallCore(p, "attach_rtt", 0)
    \/ /\ pc[p] = "rtt_attach"
       /\ \/ \E found \in Attachments :
                /\ Cont(p, "rtt_store", found, <<"rtt_attach_region">>)
                /\ UNCHANGED <<gate, bpLock, rttLock>>
          \/ Return(p, Err("InternalError"), <<"rtt_attach_region">>)
       /\ UNCHANGED <<regVars, handle, breakpoints, rtt, last_activity, hwbp,
                      now, ref, observed>>
    \/ /\ pc[p] = "rtt_store"
       /\ rttLock[S(p)] = NoProc
       /\ rtt' = [rtt EXCEPT ![S(p)] = tmp[p]]
       /\ Return(p, Ok(tmp[p]), <<>>)
       /\ UNCHANGED <<regVars, handle, breakpoints, last_activity, hwbp, now,
                      ref, observed>>

\* detach_rtt that refuses when nothing is attached.
DetachRtt_OnlyIfAttached(p) ==
    /\ Callable(p)
    /\ S(p) # NoSess
    /\ rttLock[S(p)] = NoProc
    /\ IF rtt[S(p)].attached
          THEN /\ rtt' = [rtt EXCEPT ![S(p)] = None]
               /\ Atomic(p, "detach_rtt", 0, Ok(0))
          ELSE /\ Atomic(p, "detach_rtt", 0,
                         ErrMsg("InvalidConfig", "RTT not attached"))
               /\ UNCHANGED rtt
    /\ UNCHANGED <<regVars, handle, breakpoints, last_activity, gate, bpLock,
                   rttLock, hwbp, now, ref, observed>>

\* detach_rtt, lines 507-514.
DetachRtt(p) ==
    /\ Callable(p)
    /\ S(p) # NoSess
    /\ rttLock[S(p)] = NoProc
    /\ rtt' = [rtt EXCEPT ![S(p)] = None]
    /\ Atomic(p, "detach_rtt", 0, Ok(0))
    /\ UNCHANGED <<regVars, handle, breakpoints, last_activity, gate, bpLock,
                   rttLock, hwbp, now, ref, observed>>

\* The channel lookup without the test for an attachment.
RttChannel_NoAttachTest(p, count) ==
    /\ pc[p] = "rtt_check"
    /\ rttLock[S(p)] = NoProc
    /\ IF arg[p] >= count
          THEN Return(p, ErrMsg("InvalidConfig", "channel not found"), <<>>)
          ELSE /\ rttLock' = [rttLock EXCEPT ![S(p)] = p]
               /\ Cont(p, "rtt_io", tmp[p], <<>>)
               /\ UNCHANGED <<gate, bpLock>>
    /\ UNCHANGED <<regVars, handle, breakpoints, rtt, last_activity, hwbp,
                   now, ref, observed>>

\* The channel lookup of read_rtt and write_rtt once rtt.write() is taken:
\* lines 519-522 and 529-534, 540-543 and 548-553.
RttChannel(p, count) ==
    /\ pc[p] = "rtt_check"
    /\ rttLock[S(p)] = NoProc
    /\ IF ~rtt[S(p)].attached
          THEN Return(p, ErrMsg("InvalidConfig", "RTT not attached"), <<>>)
          ELSE IF arg[p] >= count
                  THEN Return(p, ErrMsg("InvalidConfig", "channel not found"),
                              <<>>)
                  ELSE /\ rttLock' = [rttLock EXCEPT ![S(p)] = p]
                       /\ Cont(p, "rtt_io", tmp[p], <<>>)
                       /\ UNCHANGED <<gate, bpLock>>
    /\ UNCHANGED <<regVars, handle, breakpoints, rtt, last_activity, hwbp,
                   now, ref, observed>>

\* read_rtt, lines 517-535.
ReadRtt(p, chans) ==
    \/ \E channel \in chans : CallCore(p, "read_rtt", channel)
    \/ op[p] = "read_rtt" /\ RttChannel(p, rtt[S(p)].up)
    \/ op[p] = "read_rtt" /\ LastCmd(p, "rtt_io", "rtt_read")

\* write_rtt, lines 538-554.
WriteRtt(p, chans) ==
    \/ \E channel \in chans : CallCore(p, "write_rtt", channel)
    \/ op[p] = "write_rtt" /\ RttChannel(p, rtt[S(p)].down)
    \/ op[p] = "write_rtt" /\ LastCmd(p, "rtt_io", "rtt_write")

\* ------------------------------------------------------- specifications
\* A session that create_session has just stored, and callers that have
\* obtained it from get_session.
InitSess(obs) ==
    /\ sessions = {1}
    /\ regWriter = NoProc
    /\ nextId = 2
    /\ closedIds = {}
    /\ handle = [s \in SessIds |-> IF s = 1 THEN 1 ELSE 0]
    /\ breakpoints = [s \in SessIds |-> EmptyTable]
    /\ rtt = [s \in SessIds |-> None]
    /\ last_activity = [s \in SessIds |-> 0]
    /\ gate = [s \in SessIds |-> NoProc]
    /\ bpLock = [s \in SessIds |-> NoProc]
    /\ rttLock = [s \in SessIds |-> NoProc]
    /\ hwbp = [s \in SessIds |-> NoUnits]
    /\ now = 0
    /\ pc = [p \in Procs |-> "idle"]
    /\ op = [p \in Procs |-> "none"]
    /\ arg = [p \in Procs |-> 0]
    /\ ref = [p \in Procs |-> 1]
    /\ res = [p \in Procs |-> NoRes]
    /\ tmp = [p \in Procs |-> 0]
    /\ hwLog = [p \in Procs |-> <<>>]
    /\ pre = [p \in Procs |-> NoPre]
    /\ observed = obs

\* The arguments callers pass: all of them, or one of each kind.
AllInputs ==
    [flags |-> BOOLEAN,
     lists |-> {<< <<"s", "p">>, <<"b", "o", "g", "u", "s">> >>},
     names |-> SomeNames,
     addrs |-> Addrs, chans |-> Channels]
FewInputs ==
    [flags |-> {TRUE}, lists |-> {<< <<"s", "p">>, <<"b", "o", "g", "u", "s">> >>},
     names |-> {<<"s", "p">>}, addrs |-> {1}, chans |-> {0}]

SessionOp(p, in) ==
    \/ GetCore(p)
    \/ Halt(p)
    \/ Run(p)
    \/ Reset(p, in.flags)
    \/ Step(p)
    \/ GetCoreStatus(p)
    \/ get_core_status_internal(p)
    \/ ReadMemory(p)
    \/ WriteMemory(p)
    \/ ReadRegisters(p, in.lists)
    \/ WriteRegister(p, in.names)
    \/ SetBreakpoint(p, in.addrs)
    \/ ClearBreakpoint(p, in.addrs)
    \/ ListBreakpoints(p)
    \/ FlashBinary(p)
    \/ FlashElf(p)
    \/ AttachRtt(p)
    \/ DetachRtt(p)
    \/ ReadRtt(p, in.chans)
    \/ WriteRtt(p, in.chans)

\* Concurrent callers of one session.
NextSess == \E p \in Procs : SessionOp(p, FewInputs)

SpecSess == InitSess({}) /\ [][NextSess]_vars

\* One caller of one session, one call after the other.
NextSeq == SessionOp(1, AllInputs)

SpecSeq == InitSess({1}) /\ [][NextSeq]_vars

\* Every caller holds a session of its own, as far as there are sessions:
\* the state after one create_session and one get_session per caller.
InitTwo ==
    /\ sessions = {s \in SessIds : s \in Procs}
    /\ regWriter = NoProc
    /\ nextId = MaxIds + 1
    /\ closedIds = {}
    /\ handle = [s \in SessIds |-> IF s \in Procs THEN s ELSE 0]
    /\ breakpoints = [s \in SessIds |-> EmptyTable]
    /\ rtt = [s \in SessIds |-> None]
    /\ last_activity = [s \in SessIds |-> 0]
    /\ gate = [s \in SessIds |-> NoProc]
    /\ bpLock = [s \in SessIds |-> NoProc]
    /\ rttLock = [s \in SessIds |-> NoProc]
    /\ hwbp = [s \in SessIds |-> NoUnits]
    /\ now = 0
    /\ pc = [p \in Procs |-> "idle"]
    /\ op = [p \in Procs |-> "none"]
    /\ arg = [p \in Procs |-> 0]
    /\ ref = [p \in Procs |-> IF p \in SessIds THEN p ELSE 1]
    /\ res = [p \in Procs |-> NoRes]
    /\ tmp = [p \in Procs |-> 0]
    /\ hwLog = [p \in Procs |-> <<>>]
    /\ pre = [p \in Procs |-> NoPre]
    /\ observed = {}

\* The operations that between them take each of a session's three locks.
LockingOp(p) ==
    \/ GetCore(p)
    \/ Run(p)
    \/ SetBreakpoint(p, FewInputs.addrs)
    \/ ClearBreakpoint(p, FewInputs.addrs)
    \/ AttachRtt(p)
    \/ ReadRtt(p, FewInputs.chans)

\* Concurrent callers of different sessions.
NextTwo == \E p \in Procs : LockingOp(p)

SpecTwo == InitTwo /\ [][NextTwo]_vars

\* The caller drops the future of an operation that is suspended at
\* session.write().await (line 150, and the same await of the flash
\* operations): its locals go out of scope, which releases every guard it
\* holds, and the statements after the await never run.
Cancel(p) ==
    /\ pc[p] \in {"gate", "flash_gate", "elf_gate"}
    /\ Return(p, Err("Cancelled"), <<>>)
    /\ UNCHANGED <<regVars, handle, breakpoints, rtt, last_activity, hwbp,
                   now, ref, observed>>

\* One caller of one session that may abandon a call.
NextCancel ==
    \/ SessionOp(1, AllInputs)
    \/ Cancel(1)

SpecCancel == InitSess({1}) /\ [][NextCancel]_vars

\* One caller of one session that reads and writes registers, with every
\* name list of the model.
NextNames ==
    \/ GetCore(1)
    \/ ReadRegisters(1, SomeLists)
    \/ WriteRegister(1, SomeNames)

SpecNames == InitSess({1}) /\ [][NextNames]_vars

\* The characters of the names that callers may pass: the letters of the
\* canonical names in both cases, the digits, and a letter of no name.
NameChars ==
    {"R", "r", "S", "s", "P", "p", "L", "l", "C", "c", "x",
     "0", "1", "2", "3", "4", "5", "6", "7", "8", "9"}
AllNames == UNION {[1..n -> NameChars] : n \in 1..MaxNameLen}

\* The caller holds a register name.
InitNames ==
    /\ sessions = {1}
    /\ regWriter = NoProc
    /\ nextId = 2
    /\ closedIds = {}
    /\ handle = [s \in SessIds |-> IF s = 1 THEN 1 ELSE 0]
    /\ breakpoints = [s \in SessIds |-> EmptyTable]
    /\ rtt = [s \in SessIds |-> None]
    /\ last_activity = [s \in SessIds |-> 0]
    /\ gate = [s \in SessIds |-> NoProc]
    /\ bpLock = [s \in SessIds |-> NoProc]
    /\ rttLock = [s \in SessIds |-> NoProc]
    /\ hwbp = [s \in SessIds |-> NoUnits]
    /\ now = 0
    /\ pc = [p \in Procs |-> "idle"]
    /\ op = [p \in Procs |-> "none"]
    /\ \E name \in AllNames : arg = [p \in Procs |-> name]
    /\ ref = [p \in Procs |-> 1]
    /\ res = [p \in Procs |-> NoRes]
    /\ tmp = [p \in Procs |-> 0]
    /\ hwLog = [p \in Procs |-> <<>>]
    /\ pre = [p \in Procs |-> NoPre]
    /\ observed = {1}

\* The two matches applied to the name the caller holds: lines 283-301 of
\* read_registers and lines 323-341 of write_register.
ResolveName(p) ==
    /\ pc[p] = "idle"
    /\ pc' = [pc EXCEPT ![p] = "resolved"]
    /\ tmp' = [tmp EXCEPT ![p] = [read |-> RegIdRead(arg[p]),
                                  write |-> RegIdWrite(arg[p])]]
    /\ UNCHANGED <<regVars, handle, sessVars, now, op, arg, ref, res, hwLog,
                   pre, observed>>

NextResolve == ResolveName(1)

SpecResolve == InitNames /\ [][NextResolve]_vars

\* Concurrent callers of one session that set and list breakpoints.
NextBp ==
    \E p \in Procs :
        \/ GetCore(p)
        \/ SetBreakpoint(p, Addrs)
        \/ ListBreakpoints(p)

SpecBp == InitSess(Procs) /\ [][NextBp]_vars

\* One caller of one session while the wall clock advances.
NextAct ==
    \/ SessionOp(1, FewInputs)
    \/ Tick

SpecAct == InitSess({1}) /\ [][NextAct]_vars

\* One caller of the registry, one call after the other, no close_session.
NextCap ==
    \/ CreateCheck(1)
    \/ CreateOpen(1)
    \/ NewSession(1)
    \/ CreateStore(1)
    \/ GetSession(1)
    \/ DropRef(1)
    \/ ListSessions(1)
    \/ SessionCount(1)
    \/ Tick

SpecCap == InitWith({1}) /\ [][NextCap]_vars

\* Concurrent callers that create and close sessions.
NextCreate ==
    \E p \in Procs :
        \/ CreateCheck(p)
        \/ CreateOpen(p)
        \/ NewSession(p)
        \/ CreateStore(p)
        \/ CloseSession(p)
        \/ CloseDrop(p)

SpecCreate == InitWith(Procs) /\ [][NextCreate]_vars

\* One caller that uses the whole interface: it creates, looks up, runs and
\* closes sessions, one call after the other.
NextAll ==
    \/ CreateCheck(1)
    \/ CreateOpen(1)
    \/ NewSession(1)
    \/ CreateStore(1)
    \/ GetSession(1)
    \/ DropRef(1)
    \/ CloseSession(1)
    \/ CloseDrop(1)
    \/ ListSessions(1)
    \/ SessionCount(1)
    \/ SessionOp(1, FewInputs)

SpecAll == InitWith({1}) /\ [][NextAll]_vars

\* Concurrent callers of the registry; a caller that holds a session runs it.
NextReg ==
    \E p \in Procs :
        \/ CreateCheck(p)
        \/ CreateOpen(p)
        \/ NewSession(p)
        \/ CreateStore(p)
        \/ GetSession(p)
        \/ DropRef(p)
        \/ CloseSession(p)
        \/ CloseDrop(p)
        \/ ListSessions(p)
        \/ SessionCount(p)
        \/ GetCore(p)
        \/ Run(p)

SpecReg == Init /\ [][NextReg]_vars

\* --------------------------------------------------------------- claims
\* Statements at which the caller holds a core handle and still has a
\* hardware command to issue.
HwPcs ==
    {"halt", "run", "reset", "step", "status_pc", "status_sp", "status_halted",
     "status_reason", "mem_read", "mem_write", "reg_first", "reg_loop",
     "reg_match", "bp_set", "bp_clear", "rtt_attach", "rtt_check", "rtt_io",
     "flash_write", "elf_download"}

\* Statements at which the caller waits for session.write().
GatePcs == {"gate", "flash_gate", "elf_gate"}

\* Whether the hardware log holds a command of the set.
Issued(p, cmds) == \E i \in 1..Len(hwLog[p]) : hwLog[p][i] \in cmds

\* The caller has the result of a call of operation o.
Done(p, o) == p \in observed /\ pc[p] = "done" /\ op[p] = o

\* C1: in every reachable state, concurrent create_session and close_session
\* calls included, the number of stored sessions is at most max_sessions.
C1_AtMostMaxSessions == Cardinality(sessions) <= max_sessions

\* C2: on one session at most one operation is between its first and its
\* last hardware command at any time.
C2_OneOperationAtATime ==
    \A p, q \in Procs :
        (p # q /\ S(p) # NoSess /\ S(p) = S(q) /\ pc[p] \in HwPcs)
            => pc[q] \notin HwPcs

\* C2 witness: one caller executes hardware commands while another one waits
\* for the gate of the same session.
C2_Witness ==
    \E p, q \in Procs :
        /\ p # q
        /\ S(p) = S(q)
        /\ pc[p] \in HwPcs
        /\ pc[q] \in GatePcs

\* The caller whose lock caller p waits for, NoProc when p waits for none.
WaitsFor(p) ==
    CASE pc[p] \in GatePcs -> gate[S(p)]
      [] pc[p] = "bp_insert" -> bpLock[S(p)]
      [] pc[p] \in {"rtt_store", "rtt_check"} -> rttLock[S(p)]
      [] OTHER -> NoProc

\* C3: no reachable state has two callers of a session waiting for each
\* other's locks.
C3_NoCircularWait ==
    \A p, q \in Procs : ~(p # q /\ WaitsFor(p) = q /\ WaitsFor(q) = p)

\* C4: when a session operation returns an error, the breakpoint table and
\* the RTT attachment are what they were when it was called.
C4_ErrorLeavesStateUnchanged ==
    \A p \in observed :
        (pc[p] = "done" /\ S(p) # NoSess /\ res[p].kind # "Ok")
            => /\ breakpoints[S(p)] = pre[p].bp
               /\ rtt[S(p)] = pre[p].rtt

\* C5: once close_session(id) has returned Ok, the hardware handle of the
\* session is dropped and no caller executes or requests a hardware command
\* on it, whoever still holds a reference.
C5_ClosedSessionIsReleased ==
    \A id \in closedIds :
        /\ handle[id] = -1
        /\ \A p \in Procs : S(p) = id => pc[p] \notin HwPcs \cup GatePcs

\* Caller p returns from a call in this step: its recorded call or outcome
\* changes and it ends at "done".
Returns(p) ==
    /\ p \in observed
    /\ pc'[p] = "done"
    /\ \/ pc[p] # "done"
       \/ op'[p] # op[p]
       \/ res'[p].kind # res[p].kind
       \/ ref[p] = NoSess /\ ref'[p] # NoSess

\* C6: once close_session(id) has returned Ok, id is in no later registry
\* state, get_session(id) and close_session(id) fail with InvalidSession and
\* leave the registry unchanged, and list_sessions() does not return id.
C6_ClosedStaysClosed ==
    [][\A id \in closedIds :
          /\ id \notin sessions'
          /\ \A p \in Procs :
                /\ ref'[p] = id => ref[p] = id
                /\ (Returns(p) /\ op'[p] \in {"get_session", "close_session"})
                      => (arg'[p] = id
                             => /\ res'[p].kind = "InvalidSession"
                                /\ sessions' = sessions)
                /\ (Returns(p) /\ op'[p] = "list_sessions")
                      => id \notin res'[p].val]_vars

\* C6 witness: a caller was refused a session that had been closed.
C6_Witness ==
    \E p \in Procs :
        /\ Done(p, "get_session")
        /\ arg[p] \in closedIds
        /\ res[p].kind = "InvalidSession"

\* Session objects whose hardware handle is open.
OpenHandles == {s \in SessIds : handle[s] > 0}

\* C7: one caller, no close_session: create_session succeeds at most
\* max_sessions times, it is rejected with SessionLimitExceeded only when
\* max_sessions sessions are stored, and the rejected call performs no
\* hardware action and leaves the registry and its sessions as they were.
C7_CapacitySequential ==
    \A p \in observed :
        Done(p, "create_session") =>
            /\ res[p].kind = "Ok" =>
                  /\ Cardinality(sessions) <= max_sessions
                  /\ res[p].val \in sessions
            /\ res[p].kind = "SessionLimitExceeded" =>
                  /\ Cardinality(sessions) = max_sessions
                  /\ hwLog[p] = <<>>
                  /\ OpenHandles = sessions
            /\ Cardinality(sessions) = max_sessions =>
                  res[p].kind \in {"Ok", "SessionLimitExceeded"}
            /\ res[p].kind \notin {"Ok", "SessionLimitExceeded"} =>
                  /\ hwLog[p] # <<>>
                  /\ OpenHandles = sessions

\* C7 witness: the call after max_sessions successes was rejected.
C7_Witness ==
    \E p \in Procs :
        /\ Done(p, "create_session")
        /\ res[p].kind = "SessionLimitExceeded"
        /\ Cardinality(sessions) = max_sessions

\* C8: one caller, hardware succeeding: after set_breakpoint(a) the list
\* holds an entry with address a, after clear_breakpoint(a) it holds none,
\* and clear_breakpoint(a) without an entry for a returns Ok, issues no
\* hardware command and leaves the table unchanged.
C8_BreakpointRoundTrip ==
    \A p \in observed :
        /\ Done(p, "set_breakpoint") /\ res[p].kind = "Ok" =>
              <<res[p].val, arg[p]>> \in Pairs(breakpoints[S(p)])
        /\ Done(p, "list_breakpoints") =>
              res[p].val = Pairs(breakpoints[S(p)])
        /\ Done(p, "clear_breakpoint") /\ res[p].kind = "Ok" =>
              \A id \in Units : <<id, arg[p]>> \notin Pairs(breakpoints[S(p)])
        /\ Done(p, "clear_breakpoint") /\ pre[p].bp[arg[p]] = 0 =>
              /\ res[p].kind = "Ok"
              /\ hwLog[p] = <<>>
              /\ breakpoints[S(p)] = pre[p].bp

\* C8 witness: a clear_breakpoint of an address without an entry returned,
\* the hardware still holding a breakpoint that an earlier call installed.
C8_Witness ==
    \E p \in Procs :
        /\ Done(p, "clear_breakpoint")
        /\ pre[p].bp[arg[p]] = 0
        /\ \E u \in Units : hwbp[S(p)][u] # 0

RttOps == {"read_rtt", "write_rtt"}
RttTransfers == {"rtt_read", "rtt_write"}

\* C9 as stated: with no attachment every read_rtt and write_rtt fails with
\* InvalidConfig "RTT not attached" and transfers no RTT data.
C9_DetachedFailsInvalidConfig ==
    \A p \in observed :
        (pc[p] = "done" /\ op[p] \in RttOps /\ ~pre[p].rtt.attached) =>
            /\ res[p] = ErrMsg("InvalidConfig", "RTT not attached")
            /\ ~Issued(p, RttTransfers)

\* C9 amended: with no attachment every read_rtt and write_rtt fails and
\* transfers no RTT data, with InvalidConfig "RTT not attached" when the core
\* handle was obtained and with InternalError when it was not; with an
\* attachment, read_rtt of an existing up channel returns Ok unless a
\* hardware command failed.
C9_DetachedFails ==
    \A p \in observed :
        /\ (pc[p] = "done" /\ op[p] \in RttOps /\ ~pre[p].rtt.attached) =>
              /\ \/ res[p] = ErrMsg("InvalidConfig", "RTT not attached")
                 \/ res[p] = Err("InternalError") /\ hwLog[p] = <<"core">>
              /\ ~Issued(p, RttTransfers)
        /\ (Done(p, "read_rtt") /\ pre[p].rtt.attached
               /\ arg[p] < pre[p].rtt.up) =>
              \/ res[p].kind = "Ok" /\ hwLog[p] = <<"core", "rtt_read">>
              \/ res[p] = Err("InternalError")

\* C9 witness: a read_rtt after a detach_rtt was refused for want of an
\* attachment.
C9_Witness ==
    \E p \in Procs :
        /\ Done(p, "read_rtt")
        /\ ~pre[p].rtt.attached
        /\ res[p] = ErrMsg("InvalidConfig", "RTT not attached")
        /\ hwLog[p] = <<"core">>

\* C10: detach_rtt returns Ok and leaves no attachment, from an attached
\* and from a detached session alike.
C10_DetachIdempotent ==
    \A p \in observed :
        Done(p, "detach_rtt") =>
            /\ res[p].kind = "Ok"
            /\ rtt[S(p)] = None
            /\ hwLog[p] = <<>>

\* C10 witness: a detach_rtt of a session that was already detached returned.
C10_Witness ==
    \E p \in Procs :
        /\ Done(p, "detach_rtt")
        /\ ~pre[p].rtt.attached
        /\ rtt[S(p)] = None

\* C11 as stated: write_register with a name outside the canonical set fails
\* with InvalidConfig without acquiring the core or writing a register.
C11_UnknownRegisterFailsFast ==
    \A p \in observed :
        Done(p, "write_register") =>
            (RegIdWrite(arg[p]) = -1 =>
                /\ res[p].kind = "InvalidConfig"
                /\ hwLog[p] = <<>>)

\* The 16 canonical register names.
CanonicalNames ==
    {<<"R", d>> : d \in {"0", "1", "2", "3", "4", "5", "6", "7", "8", "9"}}
    \cup {<<"R", "1", "0">>, <<"R", "1", "1">>, <<"R", "1", "2">>,
          <<"S", "P">>, <<"L", "R">>, <<"P", "C">>}

\* How many entries of the hardware log are the command cmd.
CountOf(log, cmd) == Cardinality({i \in 1..Len(log) : log[i] = cmd})

\* C12 as stated: read_registers with an empty name list returns a map whose
\* key set is exactly the 16 canonical names.
C12_EmptyListReturnsAll16 ==
    \A p \in observed :
        Done(p, "read_registers") =>
            (arg[p] = <<>> =>
                /\ res[p].kind = "Ok"
                /\ res[p].val = CanonicalNames)

\* C12 amended: read_registers with an empty name list attempts one read for
\* each of the 16 canonical names once the core is acquired and returns Ok
\* with the names whose read succeeded as keys, all 16 when none failed; it
\* returns InternalError, having read nothing, when the core is not acquired.
C12_EmptyListReadsAll16 ==
    \A p \in observed :
        Done(p, "read_registers") =>
            (arg[p] = <<>> =>
                \/ /\ res[p].kind = "InternalError"
                   /\ hwLog[p] = <<"core">>
                \/ /\ res[p].kind = "Ok"
                   /\ res[p].val \subseteq CanonicalNames
                   /\ CountOf(hwLog[p], "read_reg") = Cardinality(res[p].val)
                   /\ CountOf(hwLog[p], "read_reg")
                         + CountOf(hwLog[p], "read_reg_failed") = 16
                   /\ Len(hwLog[p]) = 17)

\* C12 witness: a read_registers with an empty list returned all 16 names.
C12_Witness ==
    \E p \in Procs :
        /\ Done(p, "read_registers")
        /\ arg[p] = <<>>
        /\ res[p].kind = "Ok"
        /\ res[p].val = CanonicalNames

\* A name that designates a canonical register: a canonical name or a numeric
\* alias, in any case.
Resolves(name) ==
    to_uppercase(name) \in
        CanonicalNames \cup {<<"R", "1", "3">>, <<"R", "1", "4">>, <<"R", "1", "5">>}

\* The requested names that designate a canonical register.
Resolving(names) == {names[i] : i \in {j \in 1..Len(names) : Resolves(names[j])}}

\* C13 as stated: in read_registers unknown names are skipped; a call whose
\* names are all unknown returns an empty map, not an error, and reads no
\* register, and the returned keys are requested names that resolve.
C13_UnknownNamesSkipped ==
    \A p \in observed :
        Done(p, "read_registers") =>
            (arg[p] # <<>> =>
                /\ res[p].kind = "Ok" => res[p].val \subseteq Resolving(arg[p])
                /\ Resolving(arg[p]) = {} =>
                      /\ res[p].kind = "Ok"
                      /\ res[p].val = {}
                      /\ CountOf(hwLog[p], "read_reg") = 0
                      /\ CountOf(hwLog[p], "read_reg_failed") = 0)

\* C13 amended: once read_registers has acquired the core it returns Ok
\* whatever the names: unknown names are skipped, one read is attempted per
\* requested name that resolves, the keys are among those names, and a list
\* of unknown names only gives an empty map and no register read; when the
\* core is not acquired it returns InternalError and reads nothing.
C13_UnknownNamesSkippedOnceAcquired ==
    \A p \in observed :
        Done(p, "read_registers") =>
            (arg[p] # <<>> =>
                \/ /\ res[p].kind = "InternalError"
                   /\ hwLog[p] = <<"core">>
                \/ /\ res[p].kind = "Ok"
                   /\ res[p].val \subseteq Resolving(arg[p])
                   /\ CountOf(hwLog[p], "read_reg")
                         + CountOf(hwLog[p], "read_reg_failed")
                         = Cardinality({i \in 1..Len(arg[p]) : Resolves(arg[p][i])})
                   /\ Resolving(arg[p]) = {} =>
                         /\ res[p].val = {}
                         /\ hwLog[p] = <<"core">>)

\* C13 witness: a read_registers of unknown names only returned an empty map.
C13_Witness ==
    \E p \in Procs :
        /\ Done(p, "read_registers")
        /\ arg[p] # <<>>
        /\ Resolving(arg[p]) = {}
        /\ res[p].kind = "Ok"
        /\ res[p].val = {}

\* The operations that go through the session's exclusive gate.
GatedOps ==
    {"halt", "run", "reset", "step", "get_core_status", "read_memory",
     "write_memory", "read_registers", "write_register", "set_breakpoint",
     "clear_breakpoint", "read_rtt", "write_rtt"}

\* C14: every call of an operation that goes through the gate refreshes
\* last_activity, whether it succeeds, fails or takes a no-op path: when the
\* call has returned, last_activity is not older than the call.
C14_ActivityRefreshed ==
    \A p \in observed :
        (pc[p] = "done" /\ op[p] \in GatedOps)
            => last_activity[S(p)] >= pre[p].t

\* C15: the breakpoint table and the RTT attachment of a session change only
\* in a step of a caller that holds the session's exclusive gate.
C15_MutationUnderGate ==
    [][\A s \in SessIds :
          (breakpoints'[s] # breakpoints[s] \/ rtt'[s] # rtt[s])
              => \E p \in observed : gate[s] = p /\ pc'[p] # pc[p]]_vars

\* C16: a caller that abandons an operation before it has acquired the gate
\* leaves the breakpoint table, the RTT attachment, every lock and the
\* hardware as they were when the operation was invoked.
C16_CancelHasNoSideEffects ==
    \A p \in observed :
        (pc[p] = "done" /\ res[p].kind = "Cancelled") =>
            /\ breakpoints[S(p)] = pre[p].bp
            /\ rtt[S(p)] = pre[p].rtt
            /\ hwLog[p] = <<>>
            /\ \A s \in SessIds : p \notin {gate[s], bpLock[s], rttLock[s]}

\* C17: operations on different sessions never block each other: a caller
\* only ever waits for a lock that a caller of its own session holds, and a
\* caller that waits for no lock can take its next step whatever the callers
\* of other sessions hold.
C17_SessionsIndependent ==
    \A p \in Procs :
        InFlight(p) =>
            /\ WaitsFor(p) # NoProc => S(WaitsFor(p)) = S(p)
            /\ WaitsFor(p) = NoProc => ENABLED LockingOp(p)

\* C17 witness: callers of two different sessions hold the gates of their
\* sessions at the same time, both with a hardware command to issue.
C17_Witness ==
    \E p, q \in Procs :
        /\ S(p) # S(q)
        /\ gate[S(p)] = p
        /\ gate[S(q)] = q
        /\ pc[p] \in HwPcs
        /\ pc[q] \in HwPcs

\* C18: no caller performs a hardware action (probe enumeration or open,
\* speed-set, attach, a core command, the release of a session's hardware
\* handle) while it holds the lock of the session map.
C18_RegistryLockHeldForMapOnly ==
    [][\A p \in observed :
          Len(hwLog'[p]) > Len(hwLog[p]) => regWriter # p]_vars

\* C19: a create_session that fails with ProbeNotFound or with
\* SessionLimitExceeded has opened no probe, set no speed and attempted no
\* attach, and leaves the registry as it found it; a call that finds the
\* registry at capacity fails with SessionLimitExceeded whatever its selector.
C19_EarlyFailuresSideEffectFree ==
    \A p \in observed :
        Done(p, "create_session") =>
            /\ res[p].kind \in {"ProbeNotFound", "SessionLimitExceeded"} =>
                  /\ ~Issued(p, {"open", "set_speed", "attach"})
                  /\ sessions = pre[p].reg
                  /\ OpenHandles = sessions
            /\ res[p].kind = "SessionLimitExceeded" => hwLog[p] = <<>>
            /\ Cardinality(pre[p].reg) >= max_sessions =>
                  res[p].kind = "SessionLimitExceeded"

\* C19 witness: a create_session failed with ProbeNotFound after it had
\* enumerated the probes.
C19_Witness ==
    \E p \in Procs :
        /\ Done(p, "create_session")
        /\ res[p].kind = "ProbeNotFound"
        /\ hwLog[p] = <<"list_all">>
        /\ sessions = pre[p].reg

\* The operations that return a CoreStatus.
StatusOps == {"halt", "reset", "step", "get_core_status"}

\* C20: in every CoreStatus that halt, reset, step or get_core_status
\* returns, halt_reason is None exactly when is_halted is false; a call
\* whose halt-reason lookup failed returns Ok with halt_reason "Unknown".
C20_HaltReasonBestEffort ==
    \A p \in observed :
        (pc[p] = "done" /\ op[p] \in StatusOps) =>
            /\ res[p].kind = "Ok" =>
                  /\ (res[p].val.halt_reason = "None") <=> ~res[p].val.is_halted
                  /\ res[p].val.is_halted <=>
                        Issued(p, {"halt_reason", "halt_reason_failed"})
            /\ Issued(p, {"halt_reason_failed"}) =>
                  /\ res[p].kind = "Ok"
                  /\ res[p].val = CoreStatus(TRUE, "Unknown")

\* C20 witness: a status operation returned Ok after the halt-reason lookup
\* had failed.
C20_Witness ==
    \E p \in Procs :
        /\ pc[p] = "done"
        /\ p \in observed
        /\ op[p] \in StatusOps
        /\ Issued(p, {"halt_reason_failed"})
        /\ res[p].kind = "Ok"

\* C21: before any create_session the manager counts 0 sessions and lists
\* none; in every state session_count returns the number of ids that
\* list_sessions returns for that state, the ids of the stored sessions.
C21_CountMatchesList ==
    \A p \in observed :
        /\ Done(p, "list_sessions") =>
              /\ res[p] = Ok(pre[p].reg)
              /\ nextId = 1 => res[p].val = {}
        /\ Done(p, "session_count") =>
              /\ res[p] = Ok(Cardinality(pre[p].reg))
              /\ nextId = 1 => res[p].val = 0

\* C21 witness: of two callers that found the same non-empty registry, one
\* has listed it and the other has counted it.
C21_Witness ==
    \E p, q \in Procs :
        /\ Done(p, "list_sessions")
        /\ Done(q, "session_count")
        /\ pre[p].reg = pre[q].reg
        /\ pre[p].reg # {}
        /\ res[q].val = Cardinality(res[p].val)

\* The decimal digits, and the decimal numeral of n < 20.
Digits == <<"0", "1", "2", "3", "4", "5", "6", "7", "8", "9">>
Numeral(n) == IF n < 10 THEN <<Digits[n + 1]>> ELSE <<"1", Digits[n - 9]>>

\* Two names are equal up to the case of their letters.
SameLetter(c, d) ==
    \/ c = d
    \/ \E i \in 1..Len(LowerCase) :
          {c, d} = {LowerCase[i], UpperCase[i]}
SameName(a, b) ==
    /\ Len(a) = Len(b)
    /\ \A i \in 1..Len(a) : SameLetter(a[i], b[i])

\* The register a name designates: Rn for n in 0..15, SP, LR, PC; -1 for
\* a name that designates none.
CanonicalIndex(name) ==
    IF \E n \in 0..15 : SameName(name, <<"R">> \o Numeral(n))
       THEN CHOOSE n \in 0..15 : SameName(name, <<"R">> \o Numeral(n))
       ELSE IF SameName(name, <<"S", "P">>) THEN 13
       ELSE IF SameName(name, <<"L", "R">>) THEN 14
       ELSE IF SameName(name, <<"P", "C">>) THEN 15
       ELSE -1

\* C22: read_registers and write_register resolve every name, in any letter
\* case, to the same register index or both to none: R0..R12 to 0..12, SP
\* and R13 to 13, LR and R14 to 14, PC and R15 to 15.
C22_SameResolution ==
    \A p \in Procs :
        pc[p] = "resolved" =>
            /\ tmp[p].read = tmp[p].write
            /\ tmp[p].read = CanonicalIndex(arg[p])

\* C22 witness: an alias in mixed case has been resolved to a register.
C22_Witness ==
    \E p \in Procs :
        /\ pc[p] = "resolved"
        /\ arg[p] = <<"r", "1", "4">>
        /\ tmp[p].write = 14

\* C23: the RTT attachment of a session changes only through attach_rtt and
\* detach_rtt: a successful attach_rtt leaves exactly the attachment it
\* returns, detach_rtt leaves none, and a failed attach_rtt, an attach_rtt
\* in progress and every other operation leave the attachment as found.
C23_AttachmentFrame ==
    \A p \in observed :
        S(p) # NoSess =>
            /\ op[p] \notin {"attach_rtt", "detach_rtt"} =>
                  rtt[S(p)] = pre[p].rtt
            /\ op[p] = "attach_rtt" =>
                  IF pc[p] = "done" /\ res[p].kind = "Ok"
                     THEN /\ rtt[S(p)] = res[p].val
                          /\ rtt[S(p)].attached
                     ELSE rtt[S(p)] = pre[p].rtt
            /\ Done(p, "detach_rtt") => rtt[S(p)] = None

\* C23 witness: a successful attach_rtt has replaced a different attachment.
C23_Witness ==
    \E p \in Procs :
        /\ Done(p, "attach_rtt")
        /\ res[p].kind = "Ok"
        /\ pre[p].rtt.attached
        /\ rtt[S(p)] # pre[p].rtt

\* The entries of a listing that have address a.
EntriesFor(listing, a) == {e \in listing : e[2] = a}

\* A listing holds one entry for each address that the table maps and none
\* for any other address.
OnePerAddress(listing, table) ==
    \A a \in Addrs :
        Cardinality(EntriesFor(listing, a)) = IF table[a] # 0 THEN 1 ELSE 0

\* C24: set_breakpoint replaces atomically: while callers set and list
\* breakpoints, an address that the table maps stays mapped in every step,
\* when a set_breakpoint returns the address maps to the identifier it
\* returns, and every list_breakpoints returns exactly one entry for each
\* address that is mapped when it is called.
C24_ReplaceIsAtomic ==
    [][/\ \A s \in SessIds : \A a \in Addrs :
             breakpoints[s][a] # 0 => breakpoints'[s][a] # 0
       /\ \A p \in observed :
             /\ (pc[p] = "bp_insert" /\ pc'[p] = "done") =>
                   /\ res'[p].kind = "Ok"
                   /\ breakpoints'[S(p)][arg[p]] = res'[p].val
             /\ (pc'[p] = "done" /\ op'[p] = "list_breakpoints") =>
                   OnePerAddress(res'[p].val, pre'[p].bp)]_vars

\* C24 witness: a set_breakpoint at an address that was mapped when it was
\* called has returned, and another caller has listed that address.
C24_Witness ==
    \E p, q \in Procs :
        /\ Done(p, "set_breakpoint")
        /\ res[p].kind = "Ok"
        /\ pre[p].bp[arg[p]] # 0
        /\ Done(q, "list_breakpoints")
        /\ EntriesFor(res[q].val, arg[p]) # {}

\* Caller p takes a step of the operation it has in progress or starts one.
StepOf(p) ==
    \/ pc'[p] # pc[p]
    \/ op'[p] # op[p]
    \/ hwLog'[p] # hwLog[p]
    \/ res'[p].kind # res[p].kind

\* C25: the step in which a create_session returns Ok adds exactly the id it
\* returns, which is not in the registry before, and removes nothing; every
\* other step of a create_session, the failing returns with
\* SessionLimitExceeded, ProbeNotFound, ConnectionFailed and InvalidConfig
\* included, leaves the registry as it is.
C25_CreateAddsOneFreshEntry ==
    [][\A p \in observed :
          (StepOf(p) /\ op'[p] = "create_session") =>
              IF pc'[p] = "done" /\ res'[p].kind = "Ok"
                 THEN /\ res'[p].val \notin sessions
                      /\ sessions' = sessions \cup {res'[p].val}
                 ELSE sessions' = sessions]_vars

\* C25 witness: a create_session has returned an id while another session is
\* registered, and another create_session has failed.
C25_Witness ==
    \E p, q \in Procs :
        /\ Done(p, "create_session")
        /\ res[p].kind = "Ok"
        /\ res[p].val \in sessions
        /\ sessions \ {res[p].val} # {}
        /\ Done(q, "create_session")
        /\ res[q].kind \in {"SessionLimitExceeded", "ProbeNotFound",
                            "ConnectionFailed", "InvalidConfig"}

\* The operations of the registry that change its membership.
MembershipOps == {"create_session", "close_session"}

\* C26: a step of get_session, list_sessions, session_count or of an
\* operation invoked on a session leaves the set of registered ids as it is,
\* whether the operation succeeds or fails; the set changes only in steps of
\* create_session and close_session.
C26_MembershipFrame ==
    [][/\ \A p \in observed :
             (StepOf(p) /\ op'[p] \notin MembershipOps) => sessions' = sessions
       /\ sessions' # sessions =>
             \E p \in Procs : pc[p] = "store" \/ pc'[p] = "close_drop"]_vars

\* C26 witness: a session that was looked up is registered, and an operation
\* invoked on it has failed.
C26_Witness ==
    \E p \in Procs :
        /\ pc[p] = "done"
        /\ op[p] \notin MembershipOps \cup
                        {"get_session", "list_sessions", "session_count"}
        /\ res[p].kind \notin {"Ok", "none"}
        /\ ref[p] \in sessions

\* The register reads of read_registers, one per requested register.
RegReads == {"read_reg", "read_reg_failed"}

\* How many registers a read_registers call with these names reads.
Readable(names) ==
    LET list == IF names = <<>> THEN DefaultNames ELSE names
    IN Cardinality({i \in 1..Len(list) : RegIdRead(list[i]) # -1})

\* The log of caller p holds every hardware command at most once, a register
\* read at most once per register that the call asks for.
IssuedOnce(p) ==
    /\ \A i, j \in 1..Len(hwLog[p]) :
          (i # j /\ hwLog[p][i] = hwLog[p][j]) =>
              (op[p] = "read_registers" /\ hwLog[p][i] \in RegReads)
    /\ op[p] = "read_registers" =>
          CountOf(hwLog[p], "read_reg") + CountOf(hwLog[p], "read_reg_failed")
              <= Readable(arg[p])

\* The error variants a session operation returns.
TypedErrors == {"InternalError", "InvalidConfig", "InvalidAddress"}

\* C27: no session operation retries: within one call every hardware command
\* is issued at most once (read_registers reads each requested register
\* once), and the step in which a call returns a failure issues at most the
\* one command that fails and returns a typed error.
C27_NoRetries ==
    [][\A p \in observed :
          /\ IssuedOnce(p)'
          /\ (pc[p] \notin {"idle", "done"} /\ pc'[p] = "done"
                /\ res'[p].kind # "Ok") =>
                 /\ res'[p].kind \in TypedErrors
                 /\ Len(hwLog'[p]) <= Len(hwLog[p]) + 1
                 /\ \A i \in 1..Len(hwLog[p]) : hwLog'[p][i] = hwLog[p][i]]_vars

\* C27 witness: a call has returned InternalError for a hardware command that
\* failed after other commands of the same call had succeeded.
C27_Witness ==
    \E p \in Procs :
        /\ pc[p] = "done"
        /\ p \in observed
        /\ res[p].kind = "InternalError"
        /\ Len(hwLog[p]) >= 3

\* C28 as stated: a flash_binary at an address outside the flash regions
\* fails with InvalidAddress and issues no memory write.
C28_UncoveredFailsInvalidAddress ==
    \A p \in observed :
        (Done(p, "flash_binary") /\ arg[p] \notin FlashRegion) =>
            /\ res[p].kind = "InvalidAddress"
            /\ ~Issued(p, {"write"})

\* C28: flash_binary reads the file, then checks the address, then writes: a
\* call at an address outside the flash regions fails with InvalidConfig when
\* the file cannot be read and with InvalidAddress otherwise, in both cases
\* without a hardware command; a write is issued only for a covered address,
\* after core(0), by a call that does not report the file unreadable.
C28_CoverageCheckedBeforeWrite ==
    \A p \in observed :
        op[p] = "flash_binary" =>
            /\ (pc[p] = "done" /\ arg[p] \notin FlashRegion) =>
                  /\ res[p].kind \in {"InvalidConfig", "InvalidAddress"}
                  /\ hwLog[p] = <<>>
            /\ (pc[p] = "done" /\ res[p].kind \in {"InvalidConfig",
                                                   "InvalidAddress"}) =>
                  hwLog[p] = <<>>
            /\ (pc[p] = "done" /\ res[p].kind = "InvalidAddress") =>
                  arg[p] \notin FlashRegion
            /\ Issued(p, {"write"}) =>
                  /\ arg[p] \in FlashRegion
                  /\ hwLog[p] = <<"core", "write">>
                  /\ res[p].kind \in {"Ok", "InternalError"}

\* C28 witness: a flash_binary at an address outside the flash regions has
\* failed with InvalidAddress.
C28_Witness ==
    \E p \in Procs :
        /\ Done(p, "flash_binary")
        /\ arg[p] \notin FlashRegion
        /\ res[p].kind = "InvalidAddress"

\* The callers that have an operation in flight on session s.
InFlightOn(s) == {p \in Procs : S(p) = s /\ InFlight(p)}

\* The session's gate, breakpoint-table lock and RTT lock are free. The guard
\* of last_activity is a temporary of the assignment in update_activity and
\* does not outlive that statement.
LocksFree(s) ==
    /\ gate[s] = NoProc
    /\ bpLock[s] = NoProc
    /\ rttLock[s] = NoProc

\* C29: a session operation returns with every lock it took released, on
\* success and on every error path: a lock of a session is held only by a
\* caller that has an operation in flight on that session, so that with no
\* operation in flight all locks of the session are free.
C29_LocksReleasedOnReturn ==
    \A s \in SessIds :
        /\ \A l \in {gate[s], bpLock[s], rttLock[s]} :
              l # NoProc => l \in InFlightOn(s)
        /\ InFlightOn(s) = {} => LocksFree(s)

\* C29 witness: an operation that had taken the gate has returned an error
\* and no operation is in flight on its session.
C29_Witness ==
    \E p \in Procs :
        /\ p \in observed
        /\ pc[p] = "done"
        /\ res[p].kind = "InternalError"
        /\ Len(hwLog[p]) >= 2
        /\ hwLog[p][1] = "core"
        /\ InFlightOn(S(p)) = {}
        /\ LocksFree(S(p))

\* The addresses at which session s has a hardware breakpoint installed.
Installed(s) == {a \in Addrs : \E u \in Units : hwbp[s][u] = a}

\* C30: in every state with no operation in flight on a session, an address
\* is in the session's breakpoint table if and only if a hardware breakpoint
\* is installed at that address, also after failed set_breakpoint and
\* clear_breakpoint calls.
C30_TableMatchesHardware ==
    \A s \in SessIds :
        InFlightOn(s) = {} =>
            {a \in Addrs : breakpoints[s][a] # 0} = Installed(s)

\* C31: list_breakpoints never waits for the hardware gate: a caller that
\* holds a session and has no call in progress can always run
\* list_breakpoints to its return, whatever operations other callers have in
\* flight or pending on the session.
C31_ListNeverWaitsForHardware ==
    \A q \in Procs :
        (Callable(q) /\ S(q) # NoSess) => ENABLED ListBreakpoints(q)
====
